---- MODULE Spec2Model ----
(***************************************************************************)
(* PodPing watcher (src/watcher.py): the stream loop of PodPingWatcher.run, *)
(* the admission filter, URL extraction, the dedup window, the batch       *)
(* buffer, flush_urls with the retrying HTTP session, and the shutdown     *)
(* signal handler.                                                         *)
(*                                                                         *)
(* Time is the integer clock `now` (seconds, the unit of BATCH_TIMEOUT and *)
(* DEDUPE_WINDOW).  It advances while the main thread blocks: waiting for  *)
(* the next stream event, connecting, or inside an HTTP attempt.  Reads of *)
(* time.time() in straight-line code between two blocking points return    *)
(* the same value.                                                         *)
(***************************************************************************)
EXTENDS Integers, Sequences, FiniteSets, TLC

(* ---------------- bounds of the exploration ---------------- *)
MaxTime == 3
MaxEvents == 2

(* ---------------- configuration (environment, watcher.py 33-36) -------- *)
\* BATCH_SIZE, BATCH_TIMEOUT and DEDUPE_WINDOW are read from the environment;
\* the values here are one admissible configuration, small enough to explore.
BATCH_SIZE == 2
BATCH_TIMEOUT == 1
DEDUPE_WINDOW == 2

\* Hard-coded in the source as 2000 (high-water mark of the dedup table) and
\* 100 (retained URLs after a request exception).  Scaled down so that the
\* table and the buffer can exceed them; every formula refers to the names.
PRUNE_HIGH_WATER == 2
RETAIN_LIMIT == 2

\* Retry(total=3, ...)
RETRY_TOTAL == 3

\* HIVE_NODES is read from the environment; two nodes are configured here.
NUM_NODES == 2

\* LOOKBACK_MINUTES (environment, default 5) and the 20 blocks per minute of
\* get_start_block.
LOOKBACK_MINUTES == 5
BLOCKS_PER_MINUTE == 20

\* Hard-coded in run() as max_reconnect_attempts = 5 and time.sleep(5 * ...),
\* scaled down so that the escalation happens within MaxTime; and the
\* time.sleep(30) of main().
MAX_RECONNECT_ATTEMPTS == 3
RECONNECT_STEP == 1
RESTART_COOLDOWN == 30

(* ---------------- strings ---------------- *)
\* Operation ids are character sequences, so that prefix tests are computed.
StartsWith(s, p) == Len(s) >= Len(p) /\ SubSeq(s, 1, Len(p)) = p

S_podping == <<"p","o","d","p","i","n","g">>
S_pp_ == <<"p","p","_">>
S_pplt_ == <<"p","p","l","t","_">>
S_pp == <<"p","p">>

WATCHED_OPERATION_IDS == {S_podping, S_pp_, S_pplt_}

\* get_allowed_accounts(): the fallback list.
AllowedAccounts ==
    { "podping", "podping.aaa", "podping.bbb", "podping.ccc", "podping.ddd",
      "podping.eee", "podping.fff", "podping.ggg", "podping.hhh", "hivehydra",
      "podstation", "podping-bbb", "podping-ccc", "podping-ddd", "podping-eee",
      "podping-fff", "podping-ggg" }

\* run(), lines 355-356: the tag test.
IsWatched(operation_id) ==
    operation_id \in WATCHED_OPERATION_IDS \/ StartsWith(operation_id, S_pp)

\* run(), lines 357-358: the test of the required posting authorities.
IsAuthorized(posting_auths) ==
    posting_auths # <<>> /\ posting_auths[1] \in AllowedAccounts

\* run(), lines 355-358: the event is handed to process_podping.
IsRelevant(post) == IsWatched(post.id) /\ IsAuthorized(post.auths)

(* ---------------- payload values ---------------- *)
\* A JSON item: a string (scheme prefix + rest) or a non-string value.
Str(scheme, rest) == [isstr |-> TRUE, scheme |-> scheme, rest |-> rest]
NonStr == [isstr |-> FALSE, scheme |-> "", rest |-> "7"]

UA == Str("http://", "a")
UB == Str("http://", "b")
UC == Str("https://", "c")
FTP == Str("ftp://", "x")
PLAIN == Str("", "not-a-list-but-a-string")
EMPTYSTR == Str("", "")

URLS == {UA, UB, UC}

\* url.startswith(('http://', 'https://'))
HasHttpScheme(item) == item.scheme \in {"http://", "https://"}

\* A field of the decoded object: absent, a string, a list, or another type.
Absent == [t |-> "absent", v |-> <<>>]
FStr(s) == [t |-> "str", v |-> <<s>>]
FList(l) == [t |-> "list", v |-> l]
FOther == [t |-> "other", v |-> <<>>]

\* The decoded payload: kind "invalid" (json.loads raises JSONDecodeError),
\* "object" (a dict), "array" (a list: `in` is a membership test that fails
\* for every key), "number" (`in` raises TypeError).
Obj(urls, url, iris) == [kind |-> "object", urls |-> urls, url |-> url, iris |-> iris]
NotObj(k) == [kind |-> k, urls |-> Absent, url |-> Absent, iris |-> Absent]

\* process_podping, lines 170-190: the candidates, in the order collected.
ExtractCandidates(json_data) ==
    LET fromUrls == IF json_data.urls.t \in {"list", "str"} THEN json_data.urls.v ELSE <<>>
        fromUrl == IF json_data.url.t = "str" /\ json_data.url.v # <<EMPTYSTR>>
                   THEN json_data.url.v ELSE <<>>
        fromIris == IF json_data.iris.t = "list" THEN json_data.iris.v ELSE <<>>
    IN fromUrls \o fromUrl \o fromIris

(* ---------------- dedup window ---------------- *)
\* recent_url_times is a function from the tracked URLs to their timestamps.
EmptyTable == [u \in {} |-> 0]

\* A sweep that removes every entry older than the current time.
clean_old_urls_eager(table, current_time) ==
    [u \in {v \in DOMAIN table : ~(table[v] < current_time)} |-> table[u]]

\* clean_old_urls, lines 132-143.
clean_old_urls(table, current_time) ==
    LET cutoff_time == current_time - DEDUPE_WINDOW
        keep == {u \in DOMAIN table : ~(table[u] < cutoff_time)}
    IN [u \in keep |-> table[u]]

\* A window closed at its end: the URL is still rejected at exactly
\* last_seen + DEDUPE_WINDOW.
should_process_url_closed(url, current_time, table, deduped) ==
    LET t1 == IF Cardinality(DOMAIN table) > PRUNE_HIGH_WATER
              THEN clean_old_urls(table, current_time)
              ELSE table
    IN IF url \in DOMAIN t1 /\ current_time - t1[url] <= DEDUPE_WINDOW
       THEN [ok |-> FALSE, table |-> t1, deduped |-> deduped + 1]
       ELSE [ok |-> TRUE,
             table |-> [u \in DOMAIN t1 \cup {url} |->
                           IF u = url THEN current_time ELSE t1[u]],
             deduped |-> deduped]

\* A rejected call that refreshes the URL's timestamp.
should_process_url_refreshing(url, current_time, table, deduped) ==
    LET t1 == IF Cardinality(DOMAIN table) > PRUNE_HIGH_WATER
              THEN clean_old_urls(table, current_time)
              ELSE table
        t2 == [u \in DOMAIN t1 \cup {url} |-> IF u = url THEN current_time ELSE t1[u]]
    IN IF url \in DOMAIN t1 /\ current_time - t1[url] < DEDUPE_WINDOW
       THEN [ok |-> FALSE, table |-> t2, deduped |-> deduped + 1]
       ELSE [ok |-> TRUE, table |-> t2, deduped |-> deduped]

\* should_process_url, lines 145-162: the result, the table and the deduped
\* counter after the call.
should_process_url(url, current_time, table, deduped) ==
    LET t1 == IF Cardinality(DOMAIN table) > PRUNE_HIGH_WATER
              THEN clean_old_urls(table, current_time)
              ELSE table
    IN IF url \in DOMAIN t1 /\ current_time - t1[url] < DEDUPE_WINDOW
       THEN [ok |-> FALSE, table |-> t1, deduped |-> deduped + 1]
       ELSE [ok |-> TRUE,
             table |-> [u \in DOMAIN t1 \cup {url} |->
                           IF u = url THEN current_time ELSE t1[u]],
             deduped |-> deduped]

\* should_process_url without its lines 149-151: the table is never swept.
should_process_url_nosweep(url, current_time, table, deduped) ==
    IF url \in DOMAIN table /\ current_time - table[url] < DEDUPE_WINDOW
    THEN [ok |-> FALSE, table |-> table, deduped |-> deduped + 1]
    ELSE [ok |-> TRUE,
          table |-> [u \in DOMAIN table \cup {url} |->
                        IF u = url THEN current_time ELSE table[u]],
          deduped |-> deduped]

\* The calls of `log` (URL and time), made on a watcher that never sweeps:
\* its table, its deduped counter and the results of the calls.
RECURSIVE ReplayNoSweep(_, _)
ReplayNoSweep(log, st) ==
    IF log = <<>> THEN st
    ELSE LET r == should_process_url_nosweep(Head(log).url, Head(log).t,
                                             st.table, st.deduped)
         IN ReplayNoSweep(Tail(log),
                          [table |-> r.table, deduped |-> r.deduped,
                           results |-> Append(st.results, r.ok)])

(* ---------------- process_podping ---------------- *)
\* The state process_podping works on.  `calls` and `admit` are history:
\* the log of the should_process_url calls of this event (the URL, the time
\* of the call, its result, the time of the URL's previous admission or -1,
\* and what the call added to the deduped counter), and the time of every
\* URL's last admission (never pruned).
NoAdmit == [u \in URLS |-> -1]

\* process_podping, lines 196-207: the loop over the candidates.
RECURSIVE ProcessUrls(_, _, _)
ProcessUrls(urls, current_time, st) ==
    IF urls = <<>> THEN st
    ELSE LET url == Head(urls)
             rest == Tail(urls)
         IN IF ~url.isstr \/ ~HasHttpScheme(url)
            THEN ProcessUrls(rest, current_time, st)
            ELSE LET r == should_process_url(url, current_time, st.table, st.deduped)
                     call == [url |-> url, t |-> current_time, ok |-> r.ok,
                              prev |-> st.admit[url],
                              counted |-> r.deduped - st.deduped]
                     st1 == [st EXCEPT !.table = r.table,
                                       !.deduped = r.deduped,
                                       !.calls = Append(@, call),
                                       !.buffer = IF r.ok THEN Append(@, url) ELSE @,
                                       !.processed = IF r.ok THEN @ + 1 ELSE @,
                                       !.admit = IF r.ok
                                                 THEN [@ EXCEPT ![url] = current_time]
                                                 ELSE @]
                 IN ProcessUrls(rest, current_time, st1)

\* A size trigger that needs more than BATCH_SIZE pending URLs.
ShouldFlushAbove(buffer, current_time, last_flush) ==
    Len(buffer) > BATCH_SIZE \/ current_time - last_flush > BATCH_TIMEOUT

\* process_podping, lines 210-211: the flush condition.
ShouldFlush(buffer, current_time, last_flush) ==
    Len(buffer) >= BATCH_SIZE \/ current_time - last_flush > BATCH_TIMEOUT

\* process_podping, lines 164-218, up to the call of flush_urls: the state
\* after the event and whether line 212 calls flush_urls.
process_podping(json_data, current_time, last_flush, st) ==
    CASE json_data.kind = "invalid" ->
             \* json.JSONDecodeError: logged at debug level only
             [st EXCEPT !.want_flush = FALSE]
      [] json_data.kind = "number" ->
             \* `"urls" in json_data` raises TypeError: the generic handler
             [st EXCEPT !.errors = @ + 1, !.want_flush = FALSE]
      [] json_data.kind = "array" ->
             \* no key is `in` a list: urls stays empty, early return
             [st EXCEPT !.want_flush = FALSE]
      [] OTHER ->
             LET urls == ExtractCandidates(json_data)
             IN IF urls = <<>>
                THEN [st EXCEPT !.want_flush = FALSE]
                ELSE LET st1 == ProcessUrls(urls, current_time, st)
                     IN [st1 EXCEPT !.want_flush =
                            ShouldFlush(st1.buffer, current_time, last_flush)]

(* ---------------- flush_urls ---------------- *)
\* The buffer sent as it is.
unique_urls_as_is(buffer) == buffer

\* list(dict.fromkeys(url_buffer)), line 226.
RECURSIVE unique_urls(_)
unique_urls(buffer) ==
    IF buffer = <<>> THEN <<>>
    ELSE LET front == unique_urls(SubSeq(buffer, 1, Len(buffer) - 1))
             last == buffer[Len(buffer)]
         IN IF \E i \in 1..Len(front) : front[i] = last
            THEN front ELSE Append(front, last)

\* url_buffer[-100:], lines 256-257.
RetainTail(buffer) ==
    IF Len(buffer) > RETAIN_LIMIT
    THEN SubSeq(buffer, Len(buffer) - RETAIN_LIMIT + 1, Len(buffer))
    ELSE buffer

\* Retry(status_forcelist=[429, 500, 502, 503, 504]), line 106.
STATUS_FORCELIST == {429, 500, 502, 503, 504}

\* One HTTP attempt ends with a response, a connection error or a timeout.
Statuses == {200, 204, 404, 503}
Response(status) == [kind |-> "response", status |-> status]
ConnError == [kind |-> "request_exception", status |-> 0]
TimeoutExc == [kind |-> "timeout", status |-> 0]
\* requests.exceptions.RetryError: a RequestException that is no Timeout.
RetryError(status) == [kind |-> "request_exception", status |-> status]

\* Retry.is_retry / Retry.increment as configured in lines 103-108.
Retryable(result) ==
    result.kind # "response" \/ result.status \in STATUS_FORCELIST

\* What session.post hands to flush_urls when the attempts end as `script`
\* tells (attempt i ends with script[i]; the last entry repeats when the
\* script is shorter than the attempts made): a retryable result is retried
\* while retries are left; a response outside the force list is returned;
\* once the retries are used up a connection error or timeout is raised,
\* and a status of the force list is raised as RetryError (raise_on_status
\* is left at its default).
RECURSIVE session_post(_, _)
session_post(script, used) ==
    LET result == script[IF used + 1 <= Len(script) THEN used + 1 ELSE Len(script)]
    IN IF Retryable(result) /\ used < RETRY_TOTAL
       THEN session_post(script, used + 1)
       ELSE IF result.kind = "response" /\ result.status \in STATUS_FORCELIST
            THEN RetryError(result.status)
            ELSE result

\* The scripts explored: every single result for good, and a retryable
\* result followed by another one.
SingleScripts ==
    {<<r>> : r \in {Response(st) : st \in Statuses} \cup {ConnError, TimeoutExc}}

\* The courses explored for the handler's own POST.
ShutdownScripts ==
    {<<Response(200)>>, <<Response(404)>>, <<ConnError>>, <<TimeoutExc>>}

Scripts ==
    SingleScripts
    \cup {<<Response(503), Response(200)>>, <<ConnError, Response(200)>>,
          <<Response(503), Response(503), Response(503), Response(200)>>}

\* flush_urls, lines 240-259: stats, buffer and last_flush_time after the
\* outcome of the POST of `batch_size` unique URLs.
flush_finish(outcome, batch_size, current_time, buffer, st) ==
    CASE outcome.kind = "response" /\ outcome.status = 200 ->
             [buffer |-> <<>>, sent |-> st.sent + batch_size, errors |-> st.errors,
              last_flush |-> current_time]
      [] outcome.kind = "response" /\ outcome.status # 200 ->
             [buffer |-> <<>>, sent |-> st.sent, errors |-> st.errors + 1,
              last_flush |-> current_time]
      [] outcome.kind = "timeout" ->
             [buffer |-> <<>>, sent |-> st.sent, errors |-> st.errors + 1,
              last_flush |-> current_time]
      [] OTHER ->
             [buffer |-> RetainTail(buffer), sent |-> st.sent, errors |-> st.errors + 1,
              last_flush |-> current_time]

(* ---------------- connecting and the stream ---------------- *)
\* What happens to one node in the loop of run(), lines 302-318: "refused"
\* (beem.Hive or Blockchain raises, so `blockchain` is not assigned),
\* "probe_fails" (`blockchain` is assigned and blockchain.info() raises),
\* "ok" (the probe answers: connected_node is set and the loop breaks).
NodeOutcomes == {"refused", "probe_fails", "ok"}
ConnectCourses == [1..NUM_NODES -> NodeOutcomes]

\* The node the loop breaks at, or 0 (connected_node stays None).
ConnectedNode(course) ==
    IF \E i \in 1..NUM_NODES : course[i] = "ok"
    THEN CHOOSE i \in 1..NUM_NODES :
             course[i] = "ok" /\ \A j \in 1..(i - 1) : course[j] # "ok"
    ELSE 0

\* The number of nodes the loop has tried when it ends.
NodesTried(course) ==
    IF ConnectedNode(course) # 0 THEN ConnectedNode(course) ELSE NUM_NODES

\* The node `blockchain` was last assigned for, or 0 (`blockchain` is None).
BlockchainOf(course) ==
    LET assigned == {i \in 1..NodesTried(course) : course[i] # "refused"}
    IN IF assigned = {} THEN 0
       ELSE CHOOSE i \in assigned : \A j \in assigned : j <= i

\* get_start_block, lines 274-289.  head < 0: blockchain.info() raises and
\* the result is None, written 0 (`if start_block:` treats both alike).
NoHead == -1
get_start_block(head, minutes_back) ==
    IF head < 0 THEN 0
    ELSE LET blocks_back == minutes_back * BLOCKS_PER_MINUTE
             start_block == head - blocks_back
         IN IF start_block > 1 THEN start_block ELSE 1

\* Head block numbers explored: one within the lookback of block 1, one
\* beyond it, and the failing probe.
Heads == {50, 200, NoHead}

(* ---------------- inputs ---------------- *)
S_podping_v03 == S_podping \o <<"-","v","0",".","3">>
S_pp_video == S_pp_ \o <<"v">>
S_pplt_x == S_pplt_ \o <<"x">>
S_ppx == S_pp \o <<"x">>
S_other == <<"f","o","l","l","o","w">>

OperationIds ==
    {S_podping, S_podping_v03, S_pp_, S_pp_video, S_pplt_x, S_ppx, S_other, <<>>}

AuthLists == {<<>>, <<"podping">>, <<"mallory">>}

Payloads ==
    {NotObj("invalid"), NotObj("number"), NotObj("array"), Obj(Absent, Absent, Absent)}
    \cup {Obj(FList(l), Absent, Absent) :
            l \in {<<UA>>, <<UB>>, <<UA, UB>>, <<UA, UA>>, <<UA, UB, UC>>, <<FTP>>,
                   <<NonStr, UA>>}}
    \cup {Obj(FStr(UA), Absent, Absent), Obj(FStr(PLAIN), Absent, Absent),
          Obj(Absent, FStr(UB), Absent), Obj(Absent, FStr(EMPTYSTR), Absent),
          Obj(Absent, Absent, FStr(UC)),
          Obj(Absent, FStr(UB), FList(<<UC>>)),
          Obj(FList(<<UA>>), FStr(UB), FList(<<UC>>))}

\* The stream events explored: every payload under a tag and an authority
\* that pass the filter, and every tag and authority list under one payload.
Events ==
    {[id |-> S_podping, auths |-> <<"podping">>, json |-> j] : j \in Payloads}
    \cup {[id |-> i, auths |-> a, json |-> Obj(FList(<<UA>>), Absent, Absent)] :
            i \in OperationIds, a \in AuthLists}
    \cup {[id |-> S_podping, auths |-> a, json |-> Obj(FList(<<UA>>), Absent, Absent)] :
            a \in {<<"hivehydra">>, <<"mallory", "podping">>}}

\* Time that passes while the main thread blocks: in a connection attempt
\* or a POST, and waiting for the next stream event.
Delays == {0, 1}
StreamDelays == {0, 1, 2}

(* ---------------- state ---------------- *)
VARIABLES
    pc,                 \* where the main thread is
    now,                \* the clock
    running,            \* self.running
    url_buffer,         \* self.url_buffer
    last_flush_time,    \* self.last_flush_time
    recent_url_times,   \* self.recent_url_times
    stats,              \* self.stats: processed, sent, deduped, errors
    flush,              \* history: the most recent flush attempt
    ev,                 \* history: the most recent stream event
    calls,              \* history: should_process_url calls of that event
    admit,              \* history: time of each URL's last admission
    reach_count,        \* history: POSTs holding the URL that reached the
                        \* collector since the URL's last admission
    nevents,            \* stream events read so far
    start_block,        \* run(): start_block (0: None)
    reconnect_attempts, \* run(): reconnect_attempts
    consecutive_errors, \* history: stream errors since the last event read
    slept,              \* history: the time.sleep the last step made, or 0
    conn,               \* history: the course of the node loop, kept until
                        \* the first stream is opened
    ref                 \* history: the same should_process_url calls made
                        \* on a watcher that never sweeps

vars == <<pc, now, running, url_buffer, last_flush_time, recent_url_times, stats,
          flush, ev, calls, admit, reach_count, nevents, start_block,
          reconnect_attempts, consecutive_errors, slept, conn, ref>>

\* by: who called flush_urls; body: the POST body and buf: url_buffer at the
\* call (both kept while the POST is in flight, and for the last POST of the
\* process); n: len(url_buffer) at the call; result: what session.post gave
\* (kind "pending" while in flight); errored: flush_urls counted an error;
\* reached: the collector has the POST; overlap: another POST of this
\* process was in flight when this one was made.
NoResult == [kind |-> "none", status |-> 0]
Pending == [kind |-> "pending", status |-> 0]
NoFlush ==
    [by |-> "none", body |-> <<>>, buf |-> <<>>, n |-> 0, result |-> NoResult,
     errored |-> FALSE, reached |-> FALSE, overlap |-> FALSE]

\* id: the event's operation id; authorized: its first required authority
\* is allow-listed; passed: the event was handed to process_podping;
\* flushes: flush attempts the loop made for this event.
\* json: the event's payload.
NoEvent ==
    [id |-> <<>>, authorized |-> FALSE, passed |-> FALSE, flushes |-> 0,
     json |-> NotObj("none")]

\* connected_node: the node whose probe answered (0: none); tried: nodes
\* tried; blockchain: the node `blockchain` belongs to (0: None).
NoConn == [connected_node |-> 0, tried |-> 0, blockchain |-> 0]

\* table, deduped: the dedup table and counter of the watcher that never
\* sweeps; results: its answers to the calls of the most recent event.
NoRef == [table |-> EmptyTable, deduped |-> 0, results |-> <<>>]

\* PodPingWatcher.__init__, lines 72-85: the watcher constructed at
\* current_time.
NoStats == [processed |-> 0, sent |-> 0, deduped |-> 0, errors |-> 0]
WarmWatcher(current_time) ==
    [running |-> TRUE, url_buffer |-> url_buffer, last_flush_time |-> current_time,
     recent_url_times |-> recent_url_times, stats |-> stats]
NewWatcher(current_time) ==
    [running |-> TRUE, url_buffer |-> <<>>, last_flush_time |-> current_time,
     recent_url_times |-> EmptyTable, stats |-> NoStats]

\* The state after PodPingWatcher.__init__ (lines 72-85), at time 0.
Init ==
    /\ pc = "connecting"
    /\ now = 0
    /\ running = TRUE
    /\ url_buffer = <<>>
    /\ last_flush_time = 0
    /\ recent_url_times = EmptyTable
    /\ stats = NoStats
    /\ flush = NoFlush
    /\ ev = NoEvent
    /\ calls = <<>>
    /\ admit = NoAdmit
    /\ reach_count = [u \in URLS |-> 0]
    /\ nevents = 0
    /\ start_block = 0
    /\ reconnect_attempts = 0
    /\ consecutive_errors = 0
    /\ slept = 0
    /\ conn = NoConn
    /\ ref = NoRef

\* flush_urls, lines 222-223: nothing is sent for an empty buffer.
NothingToFlushBelowBatch(buffer) == Len(buffer) < BATCH_SIZE
NothingToFlush(buffer) == buffer = <<>>

\* flush_urls, lines 222-238: the POST body and the history of the attempt.
flush_begin(by, buffer, overlap) ==
    [by |-> by, body |-> unique_urls(buffer), buf |-> buffer, n |-> Len(buffer),
     result |-> Pending, errored |-> FALSE, reached |-> FALSE, overlap |-> overlap]

\* The collector has the POST: every URL of the body counts one more.
Reached(counts, body) ==
    [u \in URLS |-> IF \E i \in 1..Len(body) : body[i] = u
                    THEN counts[u] + 1 ELSE counts[u]]

\* A URL admitted again starts a new count.
ResetAdmitted(counts, log) ==
    [u \in URLS |-> IF \E i \in 1..Len(log) : log[i].url = u /\ log[i].ok
                    THEN 0 ELSE counts[u]]

\* A periodic check that already fires at exactly BATCH_TIMEOUT.
PeriodicDueAtLeast(current_time, last_flush) ==
    current_time - last_flush >= BATCH_TIMEOUT

\* run(), lines 361-363: the periodic check calls flush_urls.
PeriodicDue(current_time, last_flush) == current_time - last_flush > BATCH_TIMEOUT

(* ---------------- actions ---------------- *)
\* run(), lines 302-329: the node loop goes as `course` tells; with no
\* `blockchain` run() raises, otherwise get_start_block asks for the head.
Connect(course, head, dt) ==
    /\ pc = "connecting"
    /\ now + dt <= MaxTime
    /\ BlockchainOf(course) = 0 => head = NoHead
    /\ now' = now + dt
    /\ conn' = [connected_node |-> ConnectedNode(course),
                tried |-> NodesTried(course),
                blockchain |-> BlockchainOf(course)]
    /\ IF BlockchainOf(course) = 0
       THEN /\ pc' = "failed"
            /\ UNCHANGED start_block
       ELSE /\ pc' = "opening"
            /\ start_block' = get_start_block(head, LOOKBACK_MINUTES)
    /\ reconnect_attempts' = 0
    /\ slept' = 0
    /\ UNCHANGED <<running, url_buffer, last_flush_time, recent_url_times, stats,
                   flush, ev, calls, admit, reach_count, nevents,
                   consecutive_errors, ref>>

\* run(), lines 336-349: the stream is created with start_block, if any,
\* and reconnect_attempts is reset.
OpenStream ==
    /\ pc = "opening"
    /\ pc' = "streaming"
    /\ reconnect_attempts' = 0
    /\ slept' = 0
    /\ conn' = NoConn
    /\ UNCHANGED <<now, running, url_buffer, last_flush_time, recent_url_times,
                   stats, flush, ev, calls, admit, reach_count, nevents,
                   start_block, consecutive_errors, ref>>

\* run(), lines 370-388: creating the stream or reading from it raises.
\* At the maximum the exception is raised again; otherwise the loop sleeps,
\* builds a new Blockchain (`rebuilt`: that succeeds) and goes round.
StreamError(rebuilt) ==
    /\ pc \in {"opening", "streaming"}
    /\ LET attempts == reconnect_attempts + 1
           wait == RECONNECT_STEP * attempts
       IN /\ reconnect_attempts' = attempts
          /\ consecutive_errors' = consecutive_errors + 1
          /\ conn' = NoConn
          /\ IF attempts >= MAX_RECONNECT_ATTEMPTS
             THEN /\ rebuilt
                  /\ pc' = "failed"
                  /\ slept' = 0
                  /\ UNCHANGED <<now, start_block>>
             ELSE /\ now + wait <= MaxTime
                  /\ now' = now + wait
                  /\ slept' = wait
                  /\ start_block' = IF rebuilt THEN 0 ELSE start_block
                  /\ pc' = "opening"
    /\ UNCHANGED <<running, url_buffer, last_flush_time, recent_url_times, stats,
                   flush, ev, calls, admit, reach_count, nevents, ref>>

\* main(), lines 396-409: run() has raised; after the cooldown a new
\* PodPingWatcher is constructed and run.  Nothing of the old watcher is
\* kept, so the clock is counted from the new construction.
Restart ==
    /\ pc = "failed"
    /\ pc' = "connecting"
    /\ now' = 0
    /\ LET watcher == NewWatcher(0)
       IN /\ running' = watcher.running
          /\ url_buffer' = watcher.url_buffer
          /\ last_flush_time' = watcher.last_flush_time
          /\ recent_url_times' = watcher.recent_url_times
          /\ stats' = watcher.stats
    /\ flush' = NoFlush
    /\ ev' = NoEvent
    /\ calls' = <<>>
    /\ admit' = NoAdmit
    /\ reach_count' = [u \in URLS |-> 0]
    /\ nevents' = 0
    /\ start_block' = 0
    /\ reconnect_attempts' = 0
    /\ consecutive_errors' = 0
    /\ slept' = RESTART_COOLDOWN
    /\ conn' = NoConn
    /\ ref' = NoRef

\* run(), lines 351-363: one stream event, up to the next blocking point
\* (the next read of the stream, or the POST of a flush).
ReadEvent(post, dt) ==
    /\ pc = "streaming"
    /\ nevents < MaxEvents
    /\ now + dt <= MaxTime
    /\ LET t == now + dt
           st0 == [table |-> recent_url_times, buffer |-> url_buffer,
                   processed |-> stats.processed, deduped |-> stats.deduped,
                   errors |-> stats.errors, calls |-> <<>>, admit |-> admit,
                   want_flush |-> FALSE]
           passed == IsRelevant(post)
           st1 == IF passed
                  THEN process_podping(post.json, t, last_flush_time, st0)
                  ELSE st0
           inner == st1.want_flush /\ st1.buffer # <<>>
           periodic == ~inner /\ PeriodicDue(t, last_flush_time) /\ st1.buffer # <<>>
       IN /\ now' = t
          /\ nevents' = nevents + 1
          /\ IF ~running
             THEN /\ pc' = "stopped"
                  /\ UNCHANGED <<url_buffer, recent_url_times, stats, flush, ev,
                                 calls, admit, reach_count, ref>>
             ELSE /\ url_buffer' = st1.buffer
                  /\ recent_url_times' = st1.table
                  /\ stats' = [stats EXCEPT !.processed = st1.processed,
                                            !.deduped = st1.deduped,
                                            !.errors = st1.errors]
                  /\ calls' = st1.calls
                  /\ ref' = ReplayNoSweep(st1.calls, [ref EXCEPT !.results = <<>>])
                  /\ admit' = st1.admit
                  /\ reach_count' = ResetAdmitted(reach_count, st1.calls)
                  /\ ev' = [id |-> post.id, authorized |-> IsAuthorized(post.auths),
                            passed |-> passed,
                            flushes |-> IF inner \/ periodic THEN 1 ELSE 0,
                            json |-> post.json]
                  /\ IF inner \/ periodic
                     THEN /\ pc' = "posting"
                          /\ flush' = flush_begin(
                                 IF inner THEN "process_podping" ELSE "periodic",
                                 st1.buffer, FALSE)
                     ELSE /\ pc' = "streaming"
                          /\ UNCHANGED flush
          /\ consecutive_errors' = 0
          /\ UNCHANGED <<running, last_flush_time, start_block, reconnect_attempts,
                         slept, conn>>

\* flush_urls, lines 229-259, from the return of session.post: the POST in
\* flight ends as `script` tells; `got` tells whether a request of it reached
\* the collector (a response implies it did).  After a flush called by
\* process_podping the loop goes on to the periodic check of line 362.
PostReturns(script, got, dt) ==
    /\ pc = "posting"
    /\ now + dt <= MaxTime
    /\ (\E i \in 1..Len(script) : script[i].kind = "response") => got
    /\ LET t == now + dt
           outcome == session_post(script, 0)
           r == flush_finish(outcome, Len(flush.body), t, url_buffer, stats)
           again == /\ flush.by = "process_podping"
                    /\ PeriodicDue(t, r.last_flush)
                    /\ r.buffer # <<>>
       IN /\ now' = t
          /\ reach_count' = IF got THEN Reached(reach_count, flush.body)
                            ELSE reach_count
          /\ url_buffer' = r.buffer
          /\ stats' = [stats EXCEPT !.sent = r.sent, !.errors = r.errors]
          /\ last_flush_time' = r.last_flush
          /\ IF again
             THEN /\ pc' = "posting"
                  /\ flush' = flush_begin("periodic", r.buffer, FALSE)
                  /\ ev' = [ev EXCEPT !.flushes = @ + 1]
             ELSE /\ pc' = "streaming"
                  /\ flush' = [flush EXCEPT !.body = <<>>,
                                            !.buf = <<>>,
                                            !.reached = got,
                                            !.result = outcome,
                                            !.errored = r.errors > stats.errors]
                  /\ UNCHANGED ev
          /\ UNCHANGED <<running, recent_url_times, calls, admit, nevents,
                         start_block, reconnect_attempts, consecutive_errors,
                         slept, conn, ref>>

\* shutdown(), lines 92-98, on SIGTERM or SIGINT: the handler runs in the
\* main thread wherever it is blocked (connecting, reading the stream,
\* sleeping before a reconnect or a restart, or inside the POST of a
\* flush), calls flush_urls itself and exits the process.  `got` tells whether the interrupted POST had reached the
\* collector; `script` and `got2` are the course of the handler's own POST.
\* The clock is not advanced: nothing reads it after the exit, and the
\* history of the event in progress ends with the process.
Shutdown(got, script, got2) ==
    /\ pc \in {"connecting", "opening", "streaming", "posting", "failed"}
    /\ (\E i \in 1..Len(script) : script[i].kind = "response") => got2
    /\ pc = "posting" \/ ~got
    /\ url_buffer = <<>> => script = <<ConnError>> /\ ~got2
    /\ LET inflight == pc = "posting"
           counts1 == IF inflight /\ got THEN Reached(reach_count, flush.body)
                      ELSE reach_count
           body == unique_urls(url_buffer)
           outcome == session_post(script, 0)
           r == flush_finish(outcome, Len(body), now, url_buffer, stats)
       IN /\ running' = FALSE
          /\ pc' = "exited"
          /\ IF NothingToFlush(url_buffer)
             THEN /\ reach_count' = counts1
                  /\ UNCHANGED <<url_buffer, stats, last_flush_time, flush>>
             ELSE /\ url_buffer' = r.buffer
                  /\ stats' = [stats EXCEPT !.sent = r.sent, !.errors = r.errors]
                  /\ last_flush_time' = r.last_flush
                  /\ reach_count' = IF got2 THEN Reached(counts1, body) ELSE counts1
                  /\ flush' = [flush_begin("shutdown", url_buffer, inflight)
                               EXCEPT !.result = outcome,
                                      !.errored = r.errors > stats.errors,
                                      !.reached = got2]
          /\ ev' = NoEvent
          /\ calls' = <<>>
          /\ ref' = [ref EXCEPT !.results = <<>>]
          /\ UNCHANGED <<now, recent_url_times, admit, nevents, start_block,
                         reconnect_attempts, consecutive_errors, slept, conn>>

Next ==
    \/ \E course \in ConnectCourses, head \in Heads, dt \in Delays :
          Connect(course, head, dt)
    \/ OpenStream
    \/ \E rebuilt \in BOOLEAN : StreamError(rebuilt)
    \/ Restart
    \/ \E post \in Events, dt \in StreamDelays : ReadEvent(post, dt)
    \/ \E script \in Scripts, got \in BOOLEAN, dt \in Delays :
          PostReturns(script, got, dt)
    \/ \E got \in BOOLEAN, script \in ShutdownScripts, got2 \in BOOLEAN :
          Shutdown(got, script, got2)

Spec == Init /\ [][Next]_vars

(* ======================================================================= *)
(* Properties                                                              *)
(* ======================================================================= *)
Elems(seq) == {seq[i] : i \in 1..Len(seq)}
FirstIndex(seq, x) == CHOOSE i \in 1..Len(seq) : seq[i] = x /\ \A j \in 1..(i - 1) : seq[j] # x
Min(a, b) == IF a <= b THEN a ELSE b

\* C1: dedup window.  A call of should_process_url for a URL last admitted at
\* time t is rejected, and counted once in stats.deduped, when it comes at
\* t' < t + DEDUPE_WINDOW; it is admitted, counted nowhere, and t' recorded
\* as the last-seen time, when t' >= t + DEDUPE_WINDOW or the URL was never
\* admitted -- whatever was admitted or pruned in between.
C1_DedupWindow ==
    \A i \in 1..Len(calls) :
        LET c == calls[i]
            inWindow == c.prev >= 0 /\ c.t < c.prev + DEDUPE_WINDOW
        IN /\ inWindow => ~c.ok /\ c.counted = 1
           /\ ~inWindow => /\ c.ok
                           /\ c.counted = 0
                           /\ c.url \in DOMAIN recent_url_times
                           /\ recent_url_times[c.url] = c.t

\* C1 witness: in one event a URL is admitted again after its window and
\* its repeat is rejected, after the sweep has removed another URL.
C1_Witness ==
    /\ \E i \in 1..Len(calls) : calls[i].ok /\ calls[i].prev >= 0
    /\ \E i \in 1..Len(calls) : ~calls[i].ok
    /\ \E u \in URLS : admit[u] >= 0 /\ u \notin DOMAIN recent_url_times

\* C2: at-most-once delivery.  Since its last admission a URL is in at most
\* one POST that reached the collector, and the shutdown handler makes no
\* POST while a POST of the main loop is in flight.
C2_AtMostOnce ==
    /\ \A u \in URLS : reach_count[u] <= 1
    /\ ~(flush.by = "shutdown" /\ flush.overlap)

HasWatchedTag(operation_id) ==
    \E tag \in WATCHED_OPERATION_IDS : StartsWith(operation_id, tag)

\* C3: admission filter.  An event is handed to process_podping if and only
\* if its operation id equals or starts with a watched tag and its first
\* required authority is allow-listed.
C3_AdmissionFilter ==
    nevents > 0 /\ pc # "exited" => (ev.passed <=> HasWatchedTag(ev.id) /\ ev.authorized)

\* C4: batch uniqueness and order.  The body of every POST holds no URL
\* twice, holds every URL of url_buffer, and lists them in the order of
\* their first occurrence in url_buffer.
C4_BatchUnique ==
    flush.result.kind # "none" /\ (pc = "posting" \/ flush.by = "shutdown") =>
        LET body == flush.body
            buf == flush.buf
        IN /\ pc = "posting" => buf = url_buffer
           /\ \A i, j \in 1..Len(body) : i # j => body[i] # body[j]
           /\ Elems(body) = Elems(buf)
           /\ \A i, j \in 1..Len(body) :
                 i < j => FirstIndex(buf, body[i]) < FirstIndex(buf, body[j])

\* C4 witness: a POST in flight whose buffer holds a URL twice, around
\* another URL.
C4_Witness ==
    /\ pc = "posting"
    /\ Len(flush.body) >= 2
    /\ \E i, j \in 1..Len(url_buffer) : i + 1 < j /\ url_buffer[i] = url_buffer[j]

\* A step that reads a stream event; a step in which a flush attempt gets
\* its outcome; a step in which the loop starts a flush attempt.
EventStep == nevents' = nevents + 1
FlushEnds == flush' # flush /\ flush'.result.kind \notin {"none", "pending"}
LoopFlushStarts == flush' # flush /\ flush'.result.kind = "pending"
InsertionOrder(body, buf) ==
    /\ \A k \in 1..Len(buf) : buf[k] \in Elems(body)
    /\ \A i, j \in 1..Len(body) :
          i < j => FirstIndex(buf, body[i]) < FirstIndex(buf, body[j])

\* C5: size-triggered flush.  When, with the batch timeout not elapsed, an
\* event adds URLs and brings the pending count to BATCH_SIZE or more, the
\* loop starts one flush attempt before it reads the next event, made by
\* process_podping and carrying all pending URLs in insertion order; the
\* periodic check of run() adds no second attempt for the event.
C5_SizeFlush ==
    /\ [][EventStep /\ Len(url_buffer') > Len(url_buffer)
            /\ Len(url_buffer') >= BATCH_SIZE
            /\ now' - last_flush_time <= BATCH_TIMEOUT
          => /\ pc' = "posting"
             /\ flush'.by = "process_podping"
             /\ ev'.flushes = 1
             /\ InsertionOrder(flush'.body, url_buffer')]_vars
    /\ [](ev.flushes <= 1)

\* C5 witness: a flush by process_podping in flight, with more than
\* BATCH_SIZE distinct URLs pending and the timeout not elapsed.
C5_Witness ==
    /\ pc = "posting"
    /\ flush.by = "process_podping"
    /\ Len(flush.body) > BATCH_SIZE
    /\ now - last_flush_time <= BATCH_TIMEOUT
    /\ ev.flushes = 1

\* C6 as stated: with at least one and fewer than BATCH_SIZE URLs pending
\* after a stream event, the loop starts a flush attempt exactly when
\* BATCH_TIMEOUT seconds or more have elapsed since the last flush.
C6_TimeFlushAsStated ==
    [][EventStep /\ running /\ Len(url_buffer') >= 1 /\ Len(url_buffer') < BATCH_SIZE
       => (pc' = "posting" <=> now' - last_flush_time >= BATCH_TIMEOUT)]_vars

\* C6 as amended: with at least one and fewer than BATCH_SIZE URLs pending
\* after a stream event, admitted or not, the loop starts a flush attempt
\* exactly when more than BATCH_TIMEOUT seconds have elapsed since the last
\* flush.
C6_TimeFlush ==
    [][EventStep /\ running /\ Len(url_buffer') >= 1 /\ Len(url_buffer') < BATCH_SIZE
       => (pc' = "posting" <=> now' - last_flush_time > BATCH_TIMEOUT)]_vars

\* C6 witness: the periodic check starts a flush of fewer than BATCH_SIZE
\* URLs after an event that was not handed to process_podping.
C6_Witness ==
    /\ pc = "posting"
    /\ nevents > 0
    /\ ~ev.passed
    /\ flush.by = "periodic"
    /\ flush.n < BATCH_SIZE

\* C7: retry exhaustion.  When a status of the force list outlasts the
\* retries, flush_urls counts one error, leaves stats.sent alone and
\* leaves url_buffer empty.
C7_RetryExhausted ==
    [][FlushEnds /\ flush'.result.kind = "request_exception"
         /\ flush'.result.status \in STATUS_FORCELIST
       => /\ stats'.errors = stats.errors + 1
          /\ stats'.sent = stats.sent
          /\ url_buffer' = <<>>]_vars

Is2xx(status) == status \in 200..299
ServerRejection(result) ==
    \/ result.kind = "response" /\ ~Is2xx(result.status)
    \/ result.kind = "request_exception" /\ result.status \in STATUS_FORCELIST
MostRecent(buffer) ==
    LET n == Len(buffer)
        k == Min(RETAIN_LIMIT, n)
    IN [i \in 1..k |-> buffer[n - k + i]]

\* C8: failure policy of flush_urls.  After a non-success HTTP response, or a
\* force-listed status that outlasted the retries, url_buffer is empty;
\* after a connection error or a request timeout it holds the most recent
\* min(RETAIN_LIMIT, n) of the n pending URLs in their order; either way
\* stats.errors grows by one and stats.sent is unchanged.
C8_FailurePolicy ==
    [][FlushEnds /\ ~(flush'.result.kind = "response" /\ Is2xx(flush'.result.status))
       => /\ ServerRejection(flush'.result) => url_buffer' = <<>>
          /\ ~ServerRejection(flush'.result) => url_buffer' = MostRecent(url_buffer)
          /\ stats'.errors = stats.errors + 1
          /\ stats'.sent = stats.sent]_vars

\* C9: no flush-attempt storms.  Every flush attempt changes exactly one of
\* stats.sent and stats.errors and resets last_flush_time, and after a
\* failed attempt the loop starts no attempt until more than BATCH_TIMEOUT
\* seconds have elapsed.
C9_NoStorms ==
    [][/\ FlushEnds => /\ (stats'.sent # stats.sent) # (stats'.errors # stats.errors)
                       /\ last_flush_time' = now'
       /\ LoopFlushStarts /\ flush.errored
             => now' - last_flush_time > BATCH_TIMEOUT]_vars

\* C10: success classification.  A final response with a status in 200..299
\* adds the number of unique URLs of the batch to stats.sent, leaves
\* stats.errors alone and clears url_buffer; any other status is counted as
\* an error.
C10_SuccessIs2xx ==
    [][FlushEnds /\ flush'.result.kind = "response"
       => IF Is2xx(flush'.result.status)
          THEN /\ stats'.sent = stats.sent + Cardinality(Elems(url_buffer))
               /\ stats'.errors = stats.errors
               /\ url_buffer' = <<>>
          ELSE /\ stats'.errors = stats.errors + 1
               /\ stats'.sent = stats.sent]_vars

\* C11: payload decode error.  When the payload of an event handed to
\* process_podping is not valid JSON, stats.errors grows by one, url_buffer
\* and recent_url_times are unchanged, process_podping starts no flush, and
\* the stream loop goes on (no stream error is raised).
C11_DecodeError ==
    [][EventStep /\ ev'.passed /\ ev'.json.kind = "invalid"
       => /\ stats'.errors = stats.errors + 1
          /\ url_buffer' = url_buffer
          /\ recent_url_times' = recent_url_times
          /\ ~(pc' = "posting" /\ flush'.by = "process_podping")
          /\ pc' \in {"streaming", "posting"}
          /\ consecutive_errors' = 0]_vars

\* The candidates of a decoded object as the rule reads: every recognised
\* field contributes, a string itself and a sequence each of its elements;
\* strings with an http(s) scheme are kept.
FieldContribution(field) == IF field.t \in {"str", "list"} THEN field.v ELSE <<>>
IsHttpString(item) == item.isstr /\ HasHttpScheme(item)
KeptCandidates(json_data) ==
    SelectSeq(FieldContribution(json_data.urls) \o FieldContribution(json_data.url)
                  \o FieldContribution(json_data.iris),
              IsHttpString)

\* C12: extraction.  For every decoded payload object the URLs offered to
\* should_process_url are the kept candidates of all its recognised fields,
\* and the event leaves stats.errors alone.
C12_Extraction ==
    [][EventStep /\ ev'.passed /\ ev'.json.kind = "object"
       => /\ [i \in 1..Len(calls') |-> calls'[i].url] = KeptCandidates(ev'.json)
          /\ stats'.errors = stats.errors]_vars

\* C13: connecting.  When the node loop has ended, run() goes on to the
\* stream exactly if the probe of some node answered; that node is the
\* last one tried and the one `blockchain` belongs to; otherwise every node
\* was tried and run() has raised.
C13_Connecting ==
    conn.tried > 0 =>
        /\ pc \in {"opening", "failed"}
        /\ pc = "opening" <=> conn.connected_node # 0
        /\ conn.connected_node # 0 =>
              conn.tried = conn.connected_node /\ conn.blockchain = conn.connected_node
        /\ conn.connected_node = 0 => conn.tried = NUM_NODES

\* A step in which creating the stream or reading from it raises.
StreamErrorStep == consecutive_errors' = consecutive_errors + 1

\* C14: reconnect escalation.  reconnect_attempts goes back to zero only
\* when an event is read, and the stream error that makes
\* MAX_RECONNECT_ATTEMPTS in a row, with no event read in between, makes
\* run() raise.
C14_Escalation ==
    [][/\ reconnect_attempts # 0 /\ reconnect_attempts' = 0 /\ pc # "failed"
             => EventStep
       /\ StreamErrorStep /\ consecutive_errors' >= MAX_RECONNECT_ATTEMPTS
             => pc' = "failed"]_vars

\* The longest wait: the one before the last reconnect attempt.
RECONNECT_CAP == RECONNECT_STEP * (MAX_RECONNECT_ATTEMPTS - 1)

\* C15: reconnect backoff.  The k-th stream error in a row, with no event
\* read in between, is followed by a wait of min(k * RECONNECT_STEP, cap)
\* whenever run() reconnects.
C15_Backoff ==
    [][StreamErrorStep /\ pc' = "opening"
       => slept' = Min(consecutive_errors' * RECONNECT_STEP, RECONNECT_CAP)]_vars

\* C16: no lookback on reconnect.  Every stream created after a stream
\* error is created without a start block, also when building the new
\* Blockchain failed.
C16_NoLookback ==
    [][pc = "opening" /\ pc' = "streaming" /\ consecutive_errors > 0
       => start_block = 0]_vars

\* C17: graceful shutdown.  Nothing is done once the signal has been
\* handled; handling it ends the process, and with URLs pending it makes one
\* flush attempt whose POST carries all of them.
C17_GracefulShutdown ==
    /\ [][running]_vars
    /\ [][~running'
          => /\ pc' = "exited"
             /\ url_buffer # <<>>
                   => /\ flush'.by = "shutdown"
                      /\ flush'.buf = url_buffer
                      /\ Elems(flush'.body) = Elems(url_buffer)
                      /\ flush'.result.kind \notin {"none", "pending"}]_vars

\* C17 witness: the process has exited on a signal that found no POST in
\* flight and fewer than BATCH_SIZE URLs pending, and the handler's POST
\* of them was answered.
C17_Witness ==
    /\ pc = "exited"
    /\ ~running
    /\ flush.by = "shutdown"
    /\ ~flush.overlap
    /\ flush.n >= 1
    /\ flush.n < BATCH_SIZE
    /\ flush.result.kind = "response"

\* C18: outer restart loop.  A run that has raised is followed either by
\* the cooldown and a new watcher with an empty dedup table, an empty
\* buffer and zeroed stats, or by the signal handler, which flushes what is
\* pending and exits; the process ends in no other way than by the handler.
C18_RestartLoop ==
    /\ [][pc = "failed"
          => \/ /\ pc' = "connecting"
                /\ slept' = RESTART_COOLDOWN
                /\ running'
                /\ url_buffer' = <<>>
                /\ recent_url_times' = EmptyTable
                /\ stats' = NoStats
             \/ /\ pc' = "exited"
                /\ ~running'
                /\ url_buffer # <<>> => flush'.by = "shutdown" /\ flush'.buf = url_buffer]_vars
    /\ [][pc' \in {"exited", "stopped"} => ~running']_vars

\* C18 witness: a new run starts after the cooldown.
C18_Witness == pc = "connecting" /\ slept = RESTART_COOLDOWN /\ url_buffer = <<>>

\* C19 as stated: after every should_process_url call, admitted or
\* rejected, the URL's entry holds the time of the call; and an entry leaves
\* the table of a running watcher only when it is older than the window.
C19_LifecycleAsStated ==
    /\ [](\A i \in 1..Len(calls) :
             /\ calls[i].url \in DOMAIN recent_url_times
             /\ recent_url_times[calls[i].url] = calls[i].t)
    /\ [][EventStep
          => \A u \in DOMAIN recent_url_times \ DOMAIN recent_url_times' :
                now' - recent_url_times[u] > DEDUPE_WINDOW]_vars

\* C19 as amended: an admitted call (the first sighting, or a re-sighting
\* at or after the end of the window) leaves the time of the call in the
\* URL's entry; a rejected call (a re-sighting within the window) leaves
\* the entry at the time of the URL's last admission; and an entry leaves
\* the table of a running watcher only when it is older than the window.
C19_Lifecycle ==
    /\ [](\A i \in 1..Len(calls) :
             /\ calls[i].url \in DOMAIN recent_url_times
             /\ recent_url_times[calls[i].url] =
                   IF calls[i].ok THEN calls[i].t ELSE calls[i].prev)
    /\ [][EventStep
          => \A u \in DOMAIN recent_url_times \ DOMAIN recent_url_times' :
                now' - recent_url_times[u] > DEDUPE_WINDOW]_vars

\* C19 witness: a URL re-sighted within its window, after its admission,
\* whose entry still holds the time of the admission.
C19_Witness ==
    \E i \in 1..Len(calls) :
        /\ ~calls[i].ok
        /\ calls[i].prev < calls[i].t
        /\ calls[i].url \in DOMAIN recent_url_times
        /\ recent_url_times[calls[i].url] = calls[i].prev

\* C20: pruning is transparent.  The results of the should_process_url calls
\* and the deduped counter are those of a watcher that never sweeps.
C20_PruningTransparent ==
    /\ stats.deduped = ref.deduped
    /\ [i \in 1..Len(calls) |-> calls[i].ok] = ref.results

\* C20 witness: the sweep has removed two URLs that the never-sweeping
\* watcher still holds, and a call after it was rejected.
C20_Witness ==
    /\ Cardinality(DOMAIN ref.table \ DOMAIN recent_url_times) >= 2
    /\ \E i \in 1..Len(calls) : ~calls[i].ok
    /\ pc # "exited"

====
